---- MODULE Spec2Model ----
(***************************************************************************)
(* KanBan dashboard server (server.py): the GET router, the status         *)
(* aggregator (send_status), the log reader (send_log) and the JSON        *)
(* response writer (send_json), together with the external producer that   *)
(* writes the files the server reads.                                      *)
(*                                                                         *)
(* JSON values are tagged records.  A JSON string is the tuple of its      *)
(* characters, so that iterating it, measuring it and trimming it are the  *)
(* operations Python performs.  A JSON object is a function from keys      *)
(* (TLA+ strings) to JSON values; numbers are integers.                    *)
(***************************************************************************)
EXTENDS Integers, Sequences, FiniteSets, TLC

VARIABLES
    tasksFile,    \* content of DASHBOARD_DIR/tasks.json
    statusFiles,  \* content of each file of STATUS_DIR, by file name
    logFile,      \* content of LOG_FILE
    writes,       \* number of writes the producer has made
    pc,           \* position of the request handler
    request,      \* self.path as the request arrived
    path,         \* self.path of the request being handled
    data,         \* send_status: the local `data`
    idx,          \* send_status: position of the for loop in data['tasks']
    seen,         \* what each existence check and each open() found on disk
    static,       \* the path handed to SimpleHTTPRequestHandler.do_GET
    responses,    \* the responses sent for the current request
    fault         \* an exception left the handler of the current request

vars == <<tasksFile, statusFiles, logFile, writes, pc, request, path, data,
          idx, seen, static, responses, fault>>

-----------------------------------------------------------------------------
(* Bounds of the model.                                                    *)

MaxWrites == 3
MaxAppends == 2

-----------------------------------------------------------------------------
(* JSON values, as json.load builds them.                                  *)

JNull == [t |-> "null"]
JBool(b) == [t |-> "bool", b |-> b]
JNum(n) == [t |-> "num", n |-> n]
JStr(cs) == [t |-> "str", s |-> cs]
JArr(a) == [t |-> "arr", a |-> a]
JObj(o) == [t |-> "obj", o |-> o]

IsObj(v) == v.t = "obj"

\* The text a tuple of characters spells.
RECURSIVE Text(_)
Text(cs) == IF cs = <<>> THEN "" ELSE cs[1] \o Text(Tail(cs))

Digits == <<"0", "1", "2", "3", "4", "5", "6", "7", "8", "9">>

\* str(n) of a non-negative integer.
RECURSIVE FormatNum(_)
FormatNum(n) ==
    IF n < 10 THEN Digits[n + 1]
    ELSE FormatNum(n \div 10) \o Digits[(n % 10) + 1]

\* format(v, '') of an f-string field, for the scalar values an id can be.
Format(v) ==
    CASE v.t = "str" -> Text(v.s)
      [] v.t = "num" -> FormatNum(v.n)
      [] v.t = "bool" -> IF v.b THEN "True" ELSE "False"
      [] v.t = "null" -> "None"
      [] OTHER -> "<repr>"

\* The outcome of an expression that may raise: a value, or an exception.
Ok(v) == [ok |-> TRUE, val |-> v]
Raise == [ok |-> FALSE]

\* v[key] for a str key: only a dict holding the key has a value there
\* (KeyError on a dict without it, TypeError on every other type).
Subscript(v, key) ==
    IF IsObj(v) /\ key \in DOMAIN v.o THEN Ok(v.o[key]) ELSE Raise

\* The keys of a dict as a tuple (the order is immaterial to the model).
RECURSIVE KeyTuple(_)
KeyTuple(ks) ==
    IF ks = {} THEN <<>>
    ELSE LET k == CHOOSE x \in ks : TRUE IN <<k>> \o KeyTuple(ks \ {k})

\* iter(v): the items a for loop or dict.update visits; TypeError for a value
\* that is not iterable.  A str yields its characters, a dict its keys (a key
\* is held whole, as a one-element tuple: nothing measures or iterates it).
Iterate(v) ==
    CASE v.t = "arr" -> Ok(v.a)
      [] v.t = "str" -> Ok([i \in 1..Len(v.s) |-> JStr(<<v.s[i]>>)])
      [] v.t = "obj" ->
            LET ks == KeyTuple(DOMAIN v.o)
            IN Ok([i \in 1..Len(ks) |-> JStr(<<ks[i]>>)])
      [] OTHER -> Raise

\* The key a hashable value makes in a dict, as json.dumps writes it.
DictKey(v) ==
    CASE v.t = "str" -> Text(v.s)
      [] v.t = "num" -> FormatNum(v.n)
      [] v.t = "bool" -> IF v.b THEN "true" ELSE "false"
      [] OTHER -> "null"

Hashable(v) == v.t \notin {"arr", "obj"}

\* d[key] = value on the dict (function) d.
SetItem(d, key, value) ==
    [k \in DOMAIN d \cup {key} |-> IF k = key THEN value ELSE d[k]]

\* dict.update with a non-mapping argument: every item must be an iterable of
\* exactly two elements with a hashable first one; the items before a bad one
\* are already stored when the exception is raised.
RECURSIVE MergeFromSeq2(_, _)
MergeFromSeq2(d, items) ==
    IF items = <<>> THEN Ok(d)
    ELSE LET it == Iterate(items[1])
         IN IF ~it.ok \/ Len(it.val) # 2 \/ ~Hashable(it.val[1])
            THEN [ok |-> FALSE, val |-> d]
            ELSE MergeFromSeq2(SetItem(d, DictKey(it.val[1]), it.val[2]),
                               Tail(items))

\* Mutant of status_wins: the task's own value is kept on a key collision.
task_wins(d, other) ==
    [k \in DOMAIN d \cup DOMAIN other |->
        IF k \in DOMAIN d THEN d[k] ELSE other[k]]

\* dict.update with a mapping argument: the argument's value at every key.
status_wins(d, other) ==
    [k \in DOMAIN d \cup DOMAIN other |->
        IF k \in DOMAIN other THEN other[k] ELSE d[k]]

\* task.update(status): the dict afterwards, and whether it returned (ok) or
\* raised.  task is a dict; status is any JSON value.
dict_update(task, status) ==
    IF IsObj(status) THEN Ok(JObj(status_wins(task.o, status.o)))
    ELSE LET it == Iterate(status)
         IN IF ~it.ok THEN [ok |-> FALSE, val |-> task]
            ELSE LET r == MergeFromSeq2(task.o, it.val)
                 IN [ok |-> r.ok, val |-> JObj(r.val)]

-----------------------------------------------------------------------------
(* Files.                                                                  *)

Absent == [k |-> "absent"]          \* no such file
Unreadable == [k |-> "unreadable"]  \* exists; open() or read() raises OSError
Corrupt == [k |-> "corrupt"]        \* exists; its text is no JSON document
JsonFile(v) == [k |-> "json", val |-> v]  \* exists; its text is the JSON of v

\* os.path.exists(file)
exists(f) == f.k # "absent"

\* with open(file) as f: json.load(f)
json_load(f) == IF f.k = "json" THEN Ok(f.val) ELSE Raise

\* What the handler found: os.path.exists said no, or it said yes and the
\* open() that followed met the file f (absent, if removed in between).
NotFound == [found |-> FALSE]
Found(f) == [found |-> TRUE, file |-> f]

\* The files of STATUS_DIR are looked up by name; a name nobody wrote is absent.
FileAt(name) ==
    IF name \in DOMAIN statusFiles THEN statusFiles[name] ELSE Absent

-----------------------------------------------------------------------------
(* The inputs of the model: the documents the producer may leave on disk.   *)

Str(cs) == JStr(cs)
T1 == JObj([id |-> JNum(1), title |-> Str(<<"A">>)])
T2 == JObj([id |-> JNum(2), title |-> Str(<<"B">>), state |-> Str(<<"t", "o", "d", "o">>)])
T1s == JObj([id |-> Str(<<"1">>), title |-> Str(<<"C">>)])
TNoId == JObj([title |-> Str(<<"D">>)])

DocBoard == JObj([tasks |-> JArr(<<T1, T2>>), board |-> Str(<<"b">>)])
DocStale == JObj([tasks |-> JArr(<<T2, T1s>>), server_time |-> Str(<<"o", "l", "d">>)])
DocEmpty == JObj([tasks |-> JArr(<<>>)])
DocNoTasks == JObj([board |-> Str(<<"b">>)])
DocNoId == JObj([tasks |-> JArr(<<T1, TNoId>>)])
DocTasksNum == JObj([tasks |-> JNum(5)])
DocTasksStr == JObj([tasks |-> Str(<<"a", "b">>)])
DocArray == JArr(<<T1>>)

\* The task-list documents that follow the filesystem contract: a mapping
\* with a `tasks` array of mappings that each have an id.
ValidDocs == {DocBoard, DocStale, DocEmpty}
MalformedDocs == {DocNoTasks, DocNoId, DocTasksNum, DocTasksStr, DocArray}

TaskFiles ==
    {Absent, Unreadable, Corrupt} \cup
    {JsonFile(d) : d \in ValidDocs \cup MalformedDocs}

StatusNames == {"task-1.json", "task-2.json"}

StDone == JObj([state |-> Str(<<"d", "o", "n", "e">>)])
StTitle == JObj([title |-> Str(<<"Z">>), progress |-> JNum(5)])
StPairs == JArr(<<JArr(<<Str(<<"s", "t", "a", "t", "e">>), Str(<<"x">>)>>)>>)
StPartial == JArr(<<JArr(<<Str(<<"t", "i", "t", "l", "e">>), Str(<<"y">>)>>), JNum(7)>>)
StString == Str(<<"a", "b">>)

ObjectStatuses == {StDone, StTitle}
NonObjectStatuses == {StPairs, StPartial, StString, JNum(5), JBool(TRUE), JNull}

StatusContents ==
    {Unreadable, Corrupt} \cup
    {JsonFile(v) : v \in ObjectStatuses \cup NonObjectStatuses}

\* datetime.now().isoformat(): the clock's reading, one of two instants.
Times == {<<"t", "1">>, <<"t", "2">>}

Paths ==
    {"/api/status", "/api/log", "/", "/index.html", "/style.css",
     "/api/status?x=1", "/api/status/", "/api/log/"}

\* The files of DASHBOARD_DIR the static layer can serve.
Assets == {"/index.html"}

-----------------------------------------------------------------------------
(* The activity log: a file of lines, each a tuple of characters that ends  *)
(* with its newline, as readlines() returns them.                          *)

LogWindow == 50

LogLines(ls) == [k |-> "lines", lines |-> ls]

Whitespace == {" ", "\t", "\n"}

RECURSIVE lstrip(_)
lstrip(cs) ==
    IF cs # <<>> /\ cs[1] \in Whitespace THEN lstrip(Tail(cs)) ELSE cs

RECURSIVE rstrip(_)
rstrip(cs) ==
    IF cs # <<>> /\ cs[Len(cs)] \in Whitespace
    THEN rstrip(SubSeq(cs, 1, Len(cs) - 1)) ELSE cs

\* line.strip()
strip(cs) == rstrip(lstrip(cs))

DigitChars == {Digits[i] : i \in 1..10}
DigitValue(c) == (CHOOSE i \in 1..10 : Digits[i] = c) - 1

RECURSIVE NumberValue(_)
NumberValue(cs) ==
    IF cs = <<>> THEN 0
    ELSE 10 * NumberValue(SubSeq(cs, 1, Len(cs) - 1)) + DigitValue(cs[Len(cs)])

\* json.loads(text), for the JSON texts of the model's alphabet: an integer
\* without a leading zero, or the empty object; whitespace around the
\* document is allowed, anything else raises JSONDecodeError.
json_loads(text) ==
    LET cs == strip(text)
    IN IF cs # <<>> /\ (\A i \in 1..Len(cs) : cs[i] \in DigitChars)
          /\ (Len(cs) = 1 \/ cs[1] # "0")
       THEN Ok(JNum(NumberValue(cs)))
       ELSE IF Len(cs) >= 2 /\ cs[1] = "{" /\ cs[Len(cs)] = "}"
               /\ (\A i \in 2..(Len(cs) - 1) : cs[i] \in Whitespace)
       THEN Ok(JObj(<<>>))
       ELSE Raise

\* Mutant of last_lines: the first lines of the file are kept.
first_lines(lines) ==
    IF Len(lines) <= LogWindow THEN lines ELSE SubSeq(lines, 1, LogWindow)

\* f.readlines()[-50:]
last_lines(lines) ==
    IF Len(lines) <= LogWindow THEN lines
    ELSE SubSeq(lines, Len(lines) - LogWindow + 1, Len(lines))

\* The fallback entry of a line that is no JSON.
message_entry(line) == JObj([message |-> JStr(line), time |-> JStr(<<>>)])

\* Mutant of line_entries: the fallback entry carries the untrimmed line.
line_entries_raw(raw) ==
    LET line == strip(raw)
    IN IF line = <<>> THEN <<>>
       ELSE LET r == json_loads(line)
            IN IF r.ok THEN <<r.val>> ELSE <<message_entry(raw)>>

\* The body of the for loop over the kept lines: the entries one line adds.
line_entries(raw) ==
    LET line == strip(raw)
    IN IF line = <<>> THEN <<>>
       ELSE LET r == json_loads(line)
            IN IF r.ok THEN <<r.val>> ELSE <<message_entry(line)>>

RECURSIVE collect(_)
collect(lines) ==
    IF lines = <<>> THEN <<>>
    ELSE line_entries(lines[1]) \o collect(Tail(lines))

\* The entries send_log builds from the log file it finds when it opens it.
read_entries(f) ==
    IF f.k = "lines" THEN collect(last_lines(f.lines)) ELSE <<>>

LBlank == <<"\n">>
LSpaces == <<" ", "\t", "\n">>
LNumber == <<" ", "1", "7", "\n">>
LZero == <<"0", "1", "\n">>
LObject == <<"{", " ", "}", "\n">>
LText == <<" ", "x", " ", "1", " ", "\n">>

LineKinds == {LBlank, LSpaces, LNumber, LZero, LObject, LText}

\* The producer appends one line, or a burst that nearly fills the window.
Burst == LogWindow - 1
AppendSizes == {1, Burst}

Repeat(line, n) == [i \in 1..n |-> line]

-----------------------------------------------------------------------------
(* The request handler.                                                    *)

\* Mutant of send_json: an error body is sent with a 404 status code.
send_json_404(body) ==
    [code |-> IF IsObj(body) /\ "error" \in DOMAIN body.o THEN 404 ELSE 200,
     headers |-> {<<"Content-Type", "application/json">>,
                  <<"Access-Control-Allow-Origin", "*">>,
                  <<"Cache-Control", "no-cache">>},
     body |-> body]

\* send_json(data): the one response shape of the two API endpoints.
send_json(body) ==
    [code |-> 200,
     headers |-> {<<"Content-Type", "application/json">>,
                  <<"Access-Control-Allow-Origin", "*">>,
                  <<"Cache-Control", "no-cache">>},
     body |-> body]

ErrorBody ==
    JObj([error |-> Str(<<"t", "a", "s", "k", "s", ".", "j", "s", "o", "n", " ",
                          "n", "o", "t", " ", "f", "o", "u", "n", "d">>)])

\* SimpleHTTPRequestHandler.do_GET on a path: the file, or 404.
static_response(p) ==
    IF p \in Assets THEN [code |-> 200, file |-> p] ELSE [code |-> 404]

\* Mutant of route: the API paths are matched as prefixes.
route_prefix(p) ==
    IF p \in {"/api/status", "/api/status?x=1", "/api/status/"} THEN "send_status"
    ELSE IF p \in {"/api/log", "/api/log/"} THEN "send_log"
    ELSE "static"

\* The branch of do_GET a path takes.
route(p) ==
    IF p = "/api/status" THEN "send_status"
    ELSE IF p = "/api/log" THEN "send_log"
    ELSE "static"

\* The path the static layer is given: `/` is rewritten, the rest is not.
rewrite(p) == IF p = "/" THEN "/index.html" ELSE p

\* os.path.join(STATUS_DIR, f'task-{task["id"]}.json'), relative to STATUS_DIR.
status_file(id) == "task-" \o Format(id) \o ".json"

\* Mutant of merged: a status file that cannot be loaded marks its task.
merged_marking(task, f) ==
    LET r == json_load(f)
    IN IF r.ok THEN dict_update(task, r.val).val
       ELSE JObj(SetItem(task.o, "status_error", JBool(TRUE)))

\* The try block of the for loop: the task after json.load and task.update
\* on the status file f, with every exception swallowed.
merged(task, f) ==
    LET r == json_load(f)
    IN IF r.ok THEN dict_update(task, r.val).val ELSE task

\* data['tasks'] as the for loop iterates it, or the exception it raises.
task_items(d) ==
    LET ts == Subscript(d, "tasks")
    IN IF ts.ok THEN Iterate(ts.val) ELSE Raise

\* Mutant of stamp: the response is rebuilt from tasks and server_time alone.
stamp_rebuilt(d, t) ==
    JObj([tasks |-> d.o["tasks"], server_time |-> JStr(t)])

\* data['server_time'] = t
stamp(d, t) == JObj(SetItem(d.o, "server_time", JStr(t)))

Finish(rs) ==
    /\ pc' = "idle"
    /\ responses' = rs
    /\ fault' = FALSE

Abort ==
    /\ pc' = "idle"
    /\ responses' = responses
    /\ fault' = TRUE

Files == <<tasksFile, statusFiles, logFile, writes>>

\* do_GET: a request arrives and is dispatched on its path.
do_GET(p) ==
    /\ pc = "idle"
    /\ pc' = route(p)
    /\ request' = p
    /\ path' = IF route(p) = "static" THEN rewrite(p) ELSE p
    /\ data' = JNull
    /\ idx' = 0
    /\ seen' = <<>>
    /\ static' = ""
    /\ responses' = <<>>
    /\ fault' = FALSE
    /\ UNCHANGED Files

\* The static branches: super().do_GET() on the (rewritten) path.
static_GET ==
    /\ pc = "static"
    /\ static' = path
    /\ Finish(<<static_response(path)>>)
    /\ UNCHANGED <<Files, request, path, data, idx, seen>>

\* send_status, lines 41-46: load tasks.json, or report the error and stop.
load_tasks ==
    /\ pc = "send_status"
    /\ LET r == json_load(tasksFile)
       IN IF r.ok
          THEN /\ data' = r.val
               /\ idx' = 1
               /\ pc' = "for_task"
               /\ UNCHANGED <<responses, fault>>
          ELSE /\ Finish(<<send_json(ErrorBody)>>)
               /\ UNCHANGED <<data, idx>>
    /\ UNCHANGED <<Files, request, path, seen, static>>

\* send_status, lines 48-50: the next task of the loop, its status file name
\* and the existence check; the loop's end leads to line 58.
for_task ==
    /\ pc = "for_task"
    /\ LET items == task_items(data)
       IN IF ~items.ok THEN Abort /\ UNCHANGED <<idx, seen>>
          ELSE IF idx > Len(items.val)
          THEN /\ pc' = "server_time"
               /\ UNCHANGED <<idx, seen, responses, fault>>
          ELSE LET id == Subscript(items.val[idx], "id")
               IN IF ~id.ok THEN Abort /\ UNCHANGED <<idx, seen>>
                  ELSE IF exists(FileAt(status_file(id.val)))
                  THEN /\ pc' = "open_status"
                       /\ UNCHANGED <<idx, seen, responses, fault>>
                  ELSE /\ pc' = "for_task"
                       /\ idx' = idx + 1
                       /\ seen' = Append(seen, NotFound)
                       /\ UNCHANGED <<responses, fault>>
    /\ UNCHANGED <<Files, request, path, data, static>>

\* Mutant of open_status: a status file that cannot be loaded ends the request.
open_status_unguarded ==
    /\ pc = "open_status"
    /\ LET task == task_items(data).val[idx]
           f == FileAt(status_file(Subscript(task, "id").val))
       IN IF json_load(f).ok
          THEN /\ data' = [data EXCEPT !.o["tasks"].a[idx] = merged(task, f)]
               /\ seen' = Append(seen, Found(f))
               /\ idx' = idx + 1
               /\ pc' = "for_task"
               /\ UNCHANGED <<responses, fault>>
          ELSE /\ Abort
               /\ seen' = Append(seen, Found(f))
               /\ UNCHANGED <<data, idx>>
    /\ UNCHANGED <<Files, request, path, static>>

\* send_status, lines 51-56: open and parse the status file as it is now,
\* update the task in place, swallow whatever is raised.
open_status ==
    /\ pc = "open_status"
    /\ LET task == task_items(data).val[idx]
           f == FileAt(status_file(Subscript(task, "id").val))
       IN /\ data' = [data EXCEPT !.o["tasks"].a[idx] = merged(task, f)]
          /\ seen' = Append(seen, Found(f))
    /\ idx' = idx + 1
    /\ pc' = "for_task"
    /\ UNCHANGED <<Files, request, path, static, responses, fault>>

\* send_status, lines 58-59: stamp the document and send it.
server_time ==
    /\ pc = "server_time"
    /\ \E t \in Times :
          /\ data' = stamp(data, t)
          /\ Finish(<<send_json(data')>>)
    /\ UNCHANGED <<Files, request, path, idx, seen, static>>

\* send_log, lines 62-63: the existence check.
send_log ==
    /\ pc = "send_log"
    /\ IF exists(logFile)
       THEN /\ pc' = "read_log"
            /\ UNCHANGED <<responses, fault, seen>>
       ELSE /\ seen' = <<NotFound>>
            /\ Finish(<<send_json(JObj([entries |-> JArr(<<>>)]))>>)
    /\ UNCHANGED <<Files, request, path, data, idx, static>>

\* send_log, lines 64-76: read the file as it is now and send the entries.
read_log ==
    /\ pc = "read_log"
    /\ seen' = <<Found(logFile)>>
    /\ Finish(<<send_json(JObj([entries |-> JArr(read_entries(logFile))]))>>)
    /\ UNCHANGED <<Files, request, path, data, idx, static>>

-----------------------------------------------------------------------------
(* The producer: the external process that writes the files.               *)

Handler == <<pc, request, path, data, idx, seen, static, responses, fault>>

write_status ==
    /\ writes < MaxWrites
    /\ \E n \in StatusNames, c \in StatusContents :
          statusFiles' = [statusFiles EXCEPT ![n] = c]
    /\ writes' = writes + 1
    /\ UNCHANGED <<tasksFile, logFile, Handler>>

delete_status ==
    /\ writes < MaxWrites
    /\ \E n \in StatusNames :
          /\ exists(statusFiles[n])
          /\ statusFiles' = [statusFiles EXCEPT ![n] = Absent]
    /\ writes' = writes + 1
    /\ UNCHANGED <<tasksFile, logFile, Handler>>

append_log ==
    /\ writes < MaxAppends
    /\ logFile.k # "unreadable"
    /\ \E line \in LineKinds, n \in AppendSizes :
          logFile' = LogLines((IF logFile.k = "lines" THEN logFile.lines ELSE <<>>)
                              \o Repeat(line, n))
    /\ writes' = writes + 1
    /\ UNCHANGED <<tasksFile, statusFiles, Handler>>

\* The log is removed, or replaced by something that cannot be read.
replace_log ==
    /\ writes < MaxAppends
    /\ \E f \in {Absent, Unreadable} :
          /\ f # logFile
          /\ logFile' = f
    /\ writes' = writes + 1
    /\ UNCHANGED <<tasksFile, statusFiles, Handler>>

-----------------------------------------------------------------------------
(* Specifications.                                                         *)

HandlerInit ==
    /\ pc = "idle"
    /\ request = ""
    /\ path = ""
    /\ data = JNull
    /\ idx = 0
    /\ seen = <<>>
    /\ static = ""
    /\ responses = <<>>
    /\ fault = FALSE

InitLog == LogLines(<<LNumber, LBlank, LText>>)

\* The server with the producer writing status files.
Init ==
    /\ tasksFile \in TaskFiles
    /\ statusFiles = [n \in StatusNames |-> Absent]
    /\ logFile \in {Absent, InitLog}
    /\ writes = 0
    /\ HandlerInit

Next ==
    \/ \E p \in Paths : do_GET(p)
    \/ static_GET
    \/ load_tasks
    \/ for_task
    \/ open_status
    \/ server_time
    \/ send_log
    \/ read_log
    \/ write_status
    \/ delete_status

Spec == Init /\ [][Next]_vars

\* The log endpoint with the producer writing the activity log.
LogInit ==
    /\ tasksFile = Absent
    /\ statusFiles = [n \in StatusNames |-> Absent]
    /\ logFile \in {Absent, InitLog}
    /\ writes = 0
    /\ HandlerInit

LogNext ==
    \/ do_GET("/api/log")
    \/ send_log
    \/ read_log
    \/ append_log
    \/ replace_log

LogSpec == LogInit /\ [][LogNext]_vars

-----------------------------------------------------------------------------
(* Properties.                                                             *)

\* A GET /api/status request that read a task list has sent its response.
StatusAnswered ==
    /\ pc = "idle"
    /\ request = "/api/status"
    /\ tasksFile.k = "json"
    /\ responses # <<>>

\* The task records of the document on disk and of the response.
Original == tasksFile.val.o["tasks"].a
Returned == responses[1].body.o["tasks"].a

\* The task list follows the filesystem contract: one JSON document, a
\* mapping with a `tasks` array whose elements are mappings with an id.
ValidTaskList ==
    /\ tasksFile.k = "json"
    /\ IsObj(tasksFile.val)
    /\ "tasks" \in DOMAIN tasksFile.val.o
    /\ tasksFile.val.o["tasks"].t = "arr"
    /\ \A i \in 1..Len(tasksFile.val.o["tasks"].a) :
          LET task == tasksFile.val.o["tasks"].a[i]
          IN IsObj(task) /\ "id" \in DOMAIN task.o

\* The status overlay the handler parsed for task i, if it parsed one.
Parsed(i) == seen[i].found /\ seen[i].file.k = "json"
Overlay(i) == seen[i].file.val

\* rec is exactly task overridden by the JSON object status.
Overridden(rec, task, status) ==
    /\ IsObj(rec)
    /\ DOMAIN rec.o = DOMAIN task.o \cup DOMAIN status.o
    /\ \A k \in DOMAIN status.o : rec.o[k] = status.o[k]
    /\ \A k \in DOMAIN task.o \ DOMAIN status.o : rec.o[k] = task.o[k]

\* C1: every returned task whose status file existed and parsed as a JSON
\* object has exactly the original record's fields overridden by the status
\* file's fields: status values on the status keys, original values on the
\* other keys, and no further key.
C1_StatusWins ==
    StatusAnswered =>
        \A i \in 1..Len(seen) :
            (Parsed(i) /\ IsObj(Overlay(i))) =>
                Overridden(Returned[i], Original[i], Overlay(i))

\* A response in which a status file replaced a field of its task (title)
\* and added one (progress).
C1_Witness ==
    /\ StatusAnswered
    /\ \E i \in 1..Len(seen) :
          /\ Parsed(i)
          /\ Overlay(i) = StTitle
          /\ Original[i].o["title"] # StTitle.o["title"]
          /\ Returned[i].o["title"] = StTitle.o["title"]
          /\ "progress" \in DOMAIN Returned[i].o

\* C2: every returned task whose status file was absent, corrupt or
\* unreadable equals the original record, and the response surfaces no error.
C2_FailedOverlayIgnored ==
    StatusAnswered =>
        \A i \in 1..Len(seen) :
            (~seen[i].found \/ seen[i].file.k \in {"absent", "corrupt", "unreadable"}) =>
                /\ Returned[i] = Original[i]
                /\ responses[1].code = 200
                /\ "error" \notin DOMAIN responses[1].body.o
                /\ ~fault

\* A response over one task with no status file, one with a corrupt one.
C2_Witness ==
    /\ StatusAnswered
    /\ Len(seen) = 2
    /\ \E i, j \in 1..2 :
          /\ ~seen[i].found
          /\ seen[j].found /\ seen[j].file = Corrupt
          /\ Returned[i] = Original[i]
          /\ Returned[j] = Original[j]

\* C3: with the task list missing or unparsable, GET /api/status answers
\* HTTP 200 with exactly {"error": "tasks.json not found"} and does nothing
\* else: the loop is never entered, no status file is read, no server_time.
C3_TaskListError ==
    (request = "/api/status" /\ tasksFile.k # "json") =>
        /\ pc \in {"send_status", "idle"}
        /\ seen = <<>>
        /\ ~fault
        /\ pc = "idle" =>
              /\ Len(responses) = 1
              /\ responses[1].code = 200
              /\ DOMAIN responses[1].body.o = {"error"}
              /\ responses[1].body.o["error"].t = "str"
              /\ Text(responses[1].body.o["error"].s) = "tasks.json not found"

\* The error response to a request that found a corrupt task list.
C3_Witness ==
    /\ request = "/api/status"
    /\ tasksFile = Corrupt
    /\ pc = "idle"
    /\ responses # <<>>

\* C4: no GET /api/status or GET /api/log request lets an exception escape;
\* each ends with exactly one HTTP 200 response with a JSON body.
C4_NoFault ==
    (request \in {"/api/status", "/api/log"} /\ pc = "idle") =>
        /\ ~fault
        /\ Len(responses) = 1
        /\ responses[1].code = 200

\* The keys of the task-list document other than tasks and server_time.
Carried == DOMAIN tasksFile.val.o \ {"tasks", "server_time"}

\* C5: for a valid task list, the response keeps every other top-level field
\* with its value, has server_time, and its tasks list has the source's
\* length with the i-th record made from the i-th source record.
C5_DocumentPreserved ==
    (StatusAnswered /\ ValidTaskList) =>
        LET body == responses[1].body.o
        IN /\ \A k \in Carried : k \in DOMAIN body /\ body[k] = tasksFile.val.o[k]
           /\ "server_time" \in DOMAIN body
           /\ body["server_time"].t = "str"
           /\ body["server_time"].s \in Times
           /\ Len(Returned) = Len(Original)
           /\ Len(seen) = Len(Original)
           /\ \A i \in 1..Len(Original) :
                 \A k \in DOMAIN Original[i].o :
                    /\ k \in DOMAIN Returned[i].o
                    /\ \/ Returned[i].o[k] = Original[i].o[k]
                       \/ Parsed(i) /\ (IsObj(Overlay(i)) => k \in DOMAIN Overlay(i).o)

\* A response to a two-task list with a further top-level field, in which
\* the second task took its overlay and the first none.
C5_Witness ==
    /\ StatusAnswered
    /\ tasksFile.val = DocBoard
    /\ responses[1].body.o["board"] = DocBoard.o["board"]
    /\ Returned[1] = T1
    /\ Returned[2] # T2
    /\ Returned[2].o["id"] = JNum(2)

\* A GET /api/log request has sent its response.
LogAnswered ==
    /\ pc = "idle"
    /\ request = "/api/log"
    /\ responses # <<>>

Entries == responses[1].body.o["entries"].a

\* The lines of the log file as the handler read it, and the index of the
\* first of its last 50 lines.
LinesRead == seen[1].file.lines
WindowStart == IF Len(LinesRead) > 50 THEN Len(LinesRead) - 50 + 1 ELSE 1

Blank(line) == \A i \in 1..Len(line) : line[i] \in Whitespace

\* The line without its leading and trailing whitespace.
Trimmed(line) ==
    LET inked == {i \in 1..Len(line) : line[i] \notin Whitespace}
    IN IF inked = {} THEN <<>>
       ELSE SubSeq(line, CHOOSE i \in inked : \A j \in inked : i <= j,
                         CHOOSE i \in inked : \A j \in inked : i >= j)

\* What the claim requires of one line: nothing for a blank line, the parsed
\* value for a JSON line, the message entry of the trimmed text otherwise.
Required(line) ==
    IF Blank(line) THEN <<>>
    ELSE IF json_loads(Trimmed(line)).ok THEN <<json_loads(Trimmed(line)).val>>
    ELSE <<JObj([message |-> JStr(Trimmed(line)), time |-> JStr(<<>>)])>>

RECURSIVE RequiredOf(_, _)
RequiredOf(lines, from) ==
    IF from > Len(lines) THEN <<>>
    ELSE Required(lines[from]) \o RequiredOf(lines, from + 1)

\* The indices of the non-blank lines of the window, in file order.
KeptIndices ==
    SelectSeq([j \in 1..(Len(LinesRead) - WindowStart + 1) |-> WindowStart + j - 1],
              LAMBDA i : ~Blank(LinesRead[i]))

\* C6: GET /api/log returns at most 50 entries, one per non-blank line of the
\* last 50 lines of the file and in file order; no earlier line gives one.
C6_LastFiftyInOrder ==
    (LogAnswered /\ seen[1].found /\ seen[1].file.k = "lines") =>
        /\ Len(Entries) <= 50
        /\ Len(Entries) = Len(KeptIndices)
        /\ \A j \in 1..Len(KeptIndices) :
              /\ KeptIndices[j] >= WindowStart
              /\ <<Entries[j]>> = Required(LinesRead[KeptIndices[j]])

\* A response of 50 entries from a file of more than 50 lines whose first
\* line, outside the window, is not blank and differs from the kept ones.
C6_Witness ==
    /\ LogAnswered
    /\ seen[1].found
    /\ seen[1].file.k = "lines"
    /\ Len(LinesRead) > 50
    /\ ~Blank(LinesRead[1])
    /\ LinesRead[1] # LinesRead[WindowStart]
    /\ Len(Entries) = 50

\* C7: each line of the kept window gives no entry when blank, the parsed
\* value when it is JSON, and {"message": <trimmed line>, "time": ""}
\* otherwise; a log file that is absent or unreadable gives {"entries": []}.
C7_LineConversion ==
    LogAnswered =>
        /\ DOMAIN responses[1].body.o = {"entries"}
        /\ IF seen[1].found /\ seen[1].file.k = "lines"
           THEN Entries = RequiredOf(LinesRead, WindowStart)
           ELSE Entries = <<>>
        /\ Required(LText) =
              <<JObj([message |-> JStr(<<"x", " ", "1">>), time |-> JStr(<<>>)])>>
        /\ Required(LNumber) = <<JNum(17)>>

\* A response holding a parsed number and a message entry, read from a file
\* that also has a blank line.
C7_Witness ==
    /\ LogAnswered
    /\ seen[1].found
    /\ seen[1].file.k = "lines"
    /\ \E i \in 1..Len(LinesRead) : Blank(LinesRead[i])
    /\ \E i, j \in 1..Len(Entries) :
          /\ Entries[i] = JNum(17)
          /\ Entries[j].t = "obj"
          /\ "message" \in DOMAIN Entries[j].o
          /\ Text(Entries[j].o["message"].s) = "x 1"

\* C8: do_GET dispatches on the exact path: /api/status to the status
\* aggregator, /api/log to the log reader, / to the static layer as
\* /index.html, every other path to the static layer unmodified; one branch
\* handles each request.
C8_ExactDispatch ==
    /\ pc \in {"send_status", "for_task", "open_status", "server_time"} =>
          request = "/api/status"
    /\ pc \in {"send_log", "read_log"} => request = "/api/log"
    /\ pc = "static" => request \notin {"", "/api/status", "/api/log"}
    /\ (pc = "idle" /\ request # "") =>
          CASE request = "/api/status" ->
                  static = "" /\ (~fault => "headers" \in DOMAIN responses[1])
            [] request = "/api/log" ->
                  static = "" /\ "entries" \in DOMAIN responses[1].body.o
            [] request = "/" ->
                  static = "/index.html" /\ "headers" \notin DOMAIN responses[1]
            [] OTHER ->
                  static = request /\ "headers" \notin DOMAIN responses[1]

\* A request for an API path followed by a query string, served by the
\* static layer under its unmodified path.
C8_Witness ==
    /\ pc = "idle"
    /\ request = "/api/status?x=1"
    /\ static = "/api/status?x=1"
    /\ responses = <<[code |-> 404]>>

\* C9: a status file holding valid JSON that is not an object leaves its
\* task exactly as it was: no key added, no value changed.
C9_NonObjectIgnored ==
    StatusAnswered =>
        \A i \in 1..Len(seen) :
            (Parsed(i) /\ ~IsObj(Overlay(i))) => Returned[i] = Original[i]

\* A step of the handler of the request in progress.
HandlerStep ==
    static_GET \/ load_tasks \/ for_task \/ open_status \/ server_time
    \/ send_log \/ read_log

\* C10: whatever the producer does to the status files while a GET
\* /api/status request on a valid task list runs, the request is not
\* aborted: no exception escapes, it can always take its next step, and it
\* ends with one HTTP 200 response holding every task, a task whose status
\* file could not be opened, read or parsed at that moment unchanged and
\* a task whose status file gave an object merged with it.
C10_NeverAborted ==
    (request = "/api/status" /\ ValidTaskList) =>
        /\ ~fault
        /\ pc # "idle" => ENABLED HandlerStep
        /\ pc = "idle" =>
              /\ Len(responses) = 1
              /\ responses[1].code = 200
              /\ Len(Returned) = Len(Original)
              /\ \A i \in 1..Len(Original) :
                    /\ (seen[i].found /\ ~Parsed(i)) => Returned[i] = Original[i]
                    /\ (Parsed(i) /\ IsObj(Overlay(i))) =>
                          Overridden(Returned[i], Original[i], Overlay(i))

\* A response in which one task's status file was there at the existence
\* check and gone at the open, and the other task took its overlay.
C10_Witness ==
    /\ StatusAnswered
    /\ ValidTaskList
    /\ Len(seen) = 2
    /\ \E i, j \in 1..2 :
          /\ seen[i] = Found(Absent)
          /\ Returned[i] = Original[i]
          /\ Parsed(j) /\ IsObj(Overlay(j))
          /\ Returned[j] # Original[j]

====
